---- MODULE Spec2Model ----
(***************************************************************************)
(* One run of telegram_client.py: main() parses the command line, resolves *)
(* the API credentials, connects the external Telegram client, dispatches  *)
(* one action (auth, whoami, search, scrape-saved, help) and disconnects.  *)
(* The external client (telethon) is an environment whose calls return     *)
(* bounded nondeterministic data, raise an exception, or are interrupted.  *)
(*                                                                         *)
(* Encoding of Python values:                                              *)
(*   Optional value      None is <<>>, a present value v is <<v>>          *)
(*   str that is parsed  a sequence of one-character strings               *)
(*   datetime            a number of ticks since 0001-01-01 00:00 (naive), *)
(*                       TicksPerDay ticks a day; an aware datetime is a   *)
(*                       record [wall, utcoffset]                          *)
(*   message text        [body, len]: len characters of content body       *)
(* Informational print() notices are not modelled; stdout holds the JSON   *)
(* payloads main prints.                                                   *)
(***************************************************************************)
EXTENDS Integers, Sequences, FiniteSets, TLC

\* ---------------------------------------------------------------- bounds
MaxMsgs == 3        \* messages the message iterators deliver in one run
MaxDialogs == 2     \* conversations get_dialogs returns
TicksPerDay == 2    \* resolution of a day (first tick 00:00:00.000000, last 23:59:59.999999)
WallDays == 3       \* days, from BaseDay on, the message timestamps are drawn from

\* ------------------------------------------------------ program constants
TextLimit == 500    \* message.text[:500]

None == <<>>
Some(v) == <<v>>

Min(a, b) == IF a < b THEN a ELSE b

\* ------------------------------------------------------------ int(string)
DigitChars == <<"0", "1", "2", "3", "4", "5", "6", "7", "8", "9">>

IsDigit(c) == \E i \in 1..10 : DigitChars[i] = c

DigitVal(c) == (CHOOSE i \in 1..10 : DigitChars[i] = c) - 1

AllDigits(s) == Len(s) >= 1 /\ \A i \in 1..Len(s) : IsDigit(s[i])

RECURSIVE DigitsVal(_)
DigitsVal(s) ==
  IF Len(s) = 0 THEN 0
  ELSE 10 * DigitsVal(SubSeq(s, 1, Len(s) - 1)) + DigitVal(s[Len(s)])

\* int(s) of a str: an optional sign followed by decimal digits
IsIntLiteral(s) ==
  \/ AllDigits(s)
  \/ Len(s) >= 2 /\ s[1] \in {"-", "+"} /\ AllDigits(Tail(s))

IntOf(s) ==
  IF s[1] = "-" THEN 0 - DigitsVal(Tail(s))
  ELSE IF s[1] = "+" THEN DigitsVal(Tail(s))
  ELSE DigitsVal(s)

\* ------------------------------------- datetime.strptime(s, "%Y-%m-%d")
RECURSIVE SplitDash(_)
SplitDash(s) ==
  IF \A i \in 1..Len(s) : s[i] # "-" THEN <<s>>
  ELSE LET k == CHOOSE i \in 1..Len(s) :
                  s[i] = "-" /\ \A j \in 1..(i - 1) : s[j] # "-"
       IN <<SubSeq(s, 1, k - 1)>> \o SplitDash(SubSeq(s, k + 1, Len(s)))

\* %Y is \d\d\d\d
YearField(f) == Len(f) = 4 /\ AllDigits(f)

\* %m is 1[0-2]|0[1-9]|[1-9]
MonthField(f) ==
  /\ Len(f) \in {1, 2}
  /\ AllDigits(f)
  /\ DigitsVal(f) \in 1..12

\* %d is 3[01]|[12]\d|0[1-9]|[1-9]| [1-9]
DayField(f) ==
  \/ Len(f) \in {1, 2} /\ AllDigits(f) /\ DigitsVal(f) \in 1..31
  \/ Len(f) = 2 /\ f[1] = " " /\ IsDigit(f[2]) /\ f[2] # "0"

DayFieldVal(f) == IF f[1] = " " THEN DigitVal(f[2]) ELSE DigitsVal(f)

IsLeap(y) == y % 4 = 0 /\ (y % 100 # 0 \/ y % 400 = 0)

DaysInMonth(y, m) ==
  IF m = 2 THEN (IF IsLeap(y) THEN 29 ELSE 28)
  ELSE IF m \in {4, 6, 9, 11} THEN 30 ELSE 31

\* the day is checked against the month when the datetime is built
DayInMonthAlways31(y, m, d) == d <= 31

DayInMonth(y, m, d) == d <= DaysInMonth(y, m)

StrptimeOk(s) ==
  LET f == SplitDash(s)
  IN /\ Len(f) = 3
     /\ YearField(f[1])
     /\ MonthField(f[2])
     /\ DayField(f[3])
     /\ DigitsVal(f[1]) >= 1
     /\ DayInMonth(DigitsVal(f[1]), DigitsVal(f[2]), DayFieldVal(f[3]))

RECURSIVE DaysBeforeMonth(_, _)
DaysBeforeMonth(y, m) ==
  IF m = 1 THEN 0 ELSE DaysBeforeMonth(y, m - 1) + DaysInMonth(y, m - 1)

DaysBeforeYear(y) ==
  (y - 1) * 365 + ((y - 1) \div 4) - ((y - 1) \div 100) + ((y - 1) \div 400)

\* date.toordinal(): 0001-01-01 is day 1
ToOrdinal(y, m, d) == DaysBeforeYear(y) + DaysBeforeMonth(y, m) + d

StrptimeDay(s) ==
  LET f == SplitDash(s)
  IN ToOrdinal(DigitsVal(f[1]), DigitsVal(f[2]), DayFieldVal(f[3]))

\* date_obj.replace(hour=0, minute=0, second=0, microsecond=0)
StartOfDay(day) == day * TicksPerDay

\* date_obj.replace(hour=23, minute=59, second=59, microsecond=999999)
EndOfDay(day) == day * TicksPerDay + (TicksPerDay - 1)

\* message.date.replace(tzinfo=None): the wall clock fields are kept
StripTz(date) == date.wall


\* ------------------------------------------------------- input samples
\* values of --api-id and TELEGRAM_API_ID as typed
IdTokens == {<<"0">>, <<"7">>, <<"x">>}

\* values of --chat-id as typed
ChatIdTokens == {<<"0">>, <<"1">>, <<"9">>, <<"x">>}

ValidDatePadded == <<"2", "0", "2", "4", "-", "0", "1", "-", "0", "2">>
ValidDateUnpadded == <<"2", "0", "2", "4", "-", "1", "-", "3">>
ValidDateLeap == <<"2", "0", "2", "4", "-", "0", "2", "-", "2", "9">>
InvalidDates ==
  { <<"2", "0", "2", "3", "-", "0", "2", "-", "2", "9">>,
    <<"2", "0", "2", "4", "-", "1", "3", "-", "4", "0">>,
    <<"n", "o", "t", "-", "a", "-", "d", "a", "t", "e">>,
    <<"2", "0", "2", "4", "-", "0", "2", "-", "3", "0">>,
    <<"2", "0", "2", "4", "-", "0", "1", "-", "0", "2", "x">>,
    <<"0", "2", "-", "0", "1", "-", "2", "0", "2", "4">> }

DateStrings == {ValidDatePadded, ValidDateUnpadded, ValidDateLeap, <<>>} \cup InvalidDates

NoAction ==
  [auth |-> FALSE, whoami |-> FALSE, search |-> None, chat_id |-> None,
   scrape_saved |-> None]

\* which selectors are given, with one value each (dispatch precedence)
SelectorSamples ==
  { [auth |-> a, whoami |-> w,
     search |-> IF s THEN Some("q") ELSE None,
     chat_id |-> IF s THEN Some(<<"1">>) ELSE None,
     scrape_saved |-> IF d THEN Some(ValidDatePadded) ELSE None] :
    a \in BOOLEAN, w \in BOOLEAN, s \in BOOLEAN, d \in BOOLEAN }

SearchSamples ==
  { [NoAction EXCEPT !.search = s, !.chat_id = c] :
    s \in {None, Some(""), Some("q")},
    c \in {None} \cup {Some(t) : t \in ChatIdTokens} }

ScrapeSamples ==
  { [NoAction EXCEPT !.scrape_saved = Some(d)] : d \in DateStrings }

ActionSamples == SelectorSamples \cup SearchSamples \cup ScrapeSamples

GoodCredentials ==
  [api_id |-> Some(<<"7">>), api_hash |-> Some("h"),
   TELEGRAM_API_ID |-> None, TELEGRAM_API_HASH |-> None]

NoCredentials ==
  [api_id |-> None, api_hash |-> None,
   TELEGRAM_API_ID |-> None, TELEGRAM_API_HASH |-> None]

CredentialSamples ==
  [api_id : {None} \cup {Some(t) : t \in IdTokens},
   api_hash : {None, Some(""), Some("h")},
   TELEGRAM_API_ID : {None, Some(<<>>)} \cup {Some(t) : t \in IdTokens},
   TELEGRAM_API_HASH : {None, Some("h")}]

\* a run's command line and environment: every credential sample with one
\* action, and every action sample with one set of credentials
Inputs ==
  { [action |-> [NoAction EXCEPT !.whoami = TRUE], cred |-> c] :
      c \in CredentialSamples }
  \cup { [action |-> a, cred |-> GoodCredentials] : a \in ActionSamples }
  \cup { [action |-> [NoAction EXCEPT !.search = Some("q"), !.chat_id = Some(<<"x">>)],
          cred |-> NoCredentials] }

\* exceptions the external client raises
ExcSamples == {[type |-> "RPCError", msg |-> "boom"]}

MeSample ==
  [id |-> 99, first_name |-> Some("A"), last_name |-> None,
   username |-> Some("a"), phone |-> None]

CallNames ==
  {"connect", "TelegramClient", "start", "get_me", "get_dialogs",
   "iter_messages_search", "iter_messages", "self_disconnect", "disconnect"}

VARIABLES
  pc,            \* position of main()
  argv,          \* the command line, as typed
  environ,       \* os.environ
  exitStatus,    \* None while running, Some(n) once sys.exit(n) or the end is reached
  stdout,        \* the JSON payloads printed
  client,        \* TelegramSearchClient.client
  calls,         \* how many times each external call (and connect/disconnect wrapper) was invoked
  listed,        \* what get_dialogs() returned
  dialogs,       \* the list search_global loops over
  di,            \* index in dialogs of the conversation being searched
  results,       \* the local list results
  pulled,        \* history: the messages the iterators delivered, [conv, msg]
  failed,        \* history: indices in dialogs of the conversations whose search raised (0: the self-archive)
  window,        \* None, or Some([start_of_day, end_of_day])
  dispatched     \* history: None, or Some(branch of the dispatch that was entered)

vars ==
  <<pc, argv, environ, exitStatus, stdout, client, calls, listed, dialogs, di,
    results, pulled, failed, window, dispatched>>

Init ==
  /\ \E inp \in Inputs :
       /\ argv = [auth |-> inp.action.auth, whoami |-> inp.action.whoami,
                  search |-> inp.action.search, chat_id |-> inp.action.chat_id,
                  scrape_saved |-> inp.action.scrape_saved,
                  api_id |-> inp.cred.api_id, api_hash |-> inp.cred.api_hash]
       /\ environ = [TELEGRAM_API_ID |-> inp.cred.TELEGRAM_API_ID,
                     TELEGRAM_API_HASH |-> inp.cred.TELEGRAM_API_HASH]
  /\ pc = "parse_args"
  /\ exitStatus = None
  /\ stdout = <<>>
  /\ client = None
  /\ calls = [c \in CallNames |-> 0]
  /\ listed = <<>>
  /\ dialogs = <<>>
  /\ di = 0
  /\ results = <<>>
  /\ pulled = <<>>
  /\ failed = {}
  /\ window = None
  /\ dispatched = None

Called(name) == calls' = [calls EXCEPT ![name] = @ + 1]

\* ---------------------------------------------------------- parse_args
\* argparse type=int: int(token), a bad token is a usage error
IntArgOk(tok) == tok = None \/ IsIntLiteral(tok[1])

IntArg(tok) == IF tok = None THEN None ELSE Some(IntOf(tok[1]))

ArgvOk == IntArgOk(argv.chat_id) /\ IntArgOk(argv.api_id)

\* the namespace parse_args returns
args ==
  [argv EXCEPT !.chat_id = IntArg(argv.chat_id), !.api_id = IntArg(argv.api_id)]

ParseArgs ==
  /\ pc = "parse_args"
  /\ IF ArgvOk
       THEN pc' = "credentials" /\ exitStatus' = exitStatus
       ELSE pc' = "exited" /\ exitStatus' = Some(2)
  /\ UNCHANGED <<argv, environ, stdout, client, calls, listed, dialogs, di,
                 results, pulled, failed, window, dispatched>>

\* ------------------------------------------------ credentials (main)
\* truthiness of an Optional[int] and of an Optional[str]
TruthyInt(o) == o # None /\ o[1] # 0

TruthyStr(o) == o # None /\ o[1] # ""

TruthyChars(o) == o # None /\ o[1] # <<>>

\* args.api_id or os.getenv("TELEGRAM_API_ID"): an int, a str or None
ApiIdValue ==
  IF TruthyInt(args.api_id)
    THEN [kind |-> "int", n |-> args.api_id[1], s |-> <<>>]
  ELSE IF environ.TELEGRAM_API_ID # None
    THEN [kind |-> "str", n |-> 0, s |-> environ.TELEGRAM_API_ID[1]]
  ELSE [kind |-> "none", n |-> 0, s |-> <<>>]

\* args.api_hash or os.getenv("TELEGRAM_API_HASH")
ApiHashValue ==
  IF TruthyStr(args.api_hash) THEN args.api_hash ELSE environ.TELEGRAM_API_HASH

ApiIdTruthy(v) ==
  \/ v.kind = "int" /\ v.n # 0
  \/ v.kind = "str" /\ v.s # <<>>

\* not api_id or not api_hash
CredentialsMissingBoth(id, hash) == ~ApiIdTruthy(id) /\ ~TruthyStr(hash)

CredentialsMissing(id, hash) == ~ApiIdTruthy(id) \/ ~TruthyStr(hash)

\* int(api_id) does not raise ValueError or TypeError
ApiIdIsInt(v) ==
  \/ v.kind = "int"
  \/ v.kind = "str" /\ IsIntLiteral(v.s)

Credentials ==
  /\ pc = "credentials"
  /\ IF CredentialsMissing(ApiIdValue, ApiHashValue) \/ ~ApiIdIsInt(ApiIdValue)
       THEN pc' = "exited" /\ exitStatus' = Some(1)
       ELSE pc' = "connect" /\ exitStatus' = exitStatus
  /\ UNCHANGED <<argv, environ, stdout, client, calls, listed, dialogs, di,
                 results, pulled, failed, window, dispatched>>

\* ------------------------------------------- the handlers of main's try
\* except KeyboardInterrupt: notice, sys.exit(0); the finally block follows
Interrupted ==
  /\ pc' = "finally"
  /\ exitStatus' = Some(0)
  /\ stdout' = stdout

\* except Exception as e: the error payload, sys.exit(1); the finally block follows
Crashed(e) ==
  /\ pc' = "finally"
  /\ exitStatus' = Some(1)
  /\ stdout' = Append(stdout, [error |-> e.msg, error_type |-> e.type])

\* a branch of the dispatch printed its payload and fell out of the try
Printed(payload) ==
  /\ pc' = "finally"
  /\ exitStatus' = exitStatus
  /\ stdout' = Append(stdout, payload)

\* ------------------------------------------------------------- connect
\* TelegramSearchClient.connect: build the client, then client.start()
Connect ==
  /\ pc = "connect"
  /\ \/ \* TelegramClient(...) raises: self.client stays None
        /\ \E e \in ExcSamples : Crashed(e)
        /\ calls' = [calls EXCEPT !["connect"] = @ + 1, !["TelegramClient"] = @ + 1]
        /\ client' = client
     \/ /\ client' = Some("TelegramClient")
        /\ calls' = [calls EXCEPT !["connect"] = @ + 1, !["TelegramClient"] = @ + 1,
                                  !["start"] = @ + 1]
        /\ \/ pc' = "dispatch" /\ exitStatus' = exitStatus /\ stdout' = stdout
           \/ \E e \in ExcSamples : Crashed(e)
           \/ Interrupted
  /\ UNCHANGED <<argv, environ, listed, dialogs, di, results, pulled, failed, window, dispatched>>

\* ------------------------------------------------------------ dispatch
\* the if/elif chain of main
Branch ==
  IF args.auth THEN "auth"
  ELSE IF args.whoami THEN "whoami"
  ELSE IF TruthyStr(args.search) THEN "search"
  ELSE IF TruthyChars(args.scrape_saved) THEN "scrape"
  ELSE "help"

Dispatch ==
  /\ pc = "dispatch"
  /\ IF Branch = "help"
       THEN pc' = "finally"      \* parser.print_help()
       ELSE pc' = Branch
  /\ dispatched' = Some(Branch)
  /\ UNCHANGED <<argv, environ, exitStatus, stdout, client, calls, listed,
                 dialogs, di, results, pulled, failed, window>>

\* TelegramSearchClient.get_me
GetMePayload(me) ==
  [user_id |-> me.id, first_name |-> me.first_name, last_name |-> me.last_name,
   username |-> me.username, phone |-> me.phone]

Auth ==
  /\ pc = "auth"
  /\ Called("get_me")
  /\ \/ Printed([status |-> "authenticated", user |-> GetMePayload(MeSample),
                 session_file |-> "anon.session"])
     \/ \E e \in ExcSamples : Crashed(e)
     \/ Interrupted
  /\ UNCHANGED <<argv, environ, client, listed, dialogs, di, results, pulled,
                 failed, window, dispatched>>

WhoAmI ==
  /\ pc = "whoami"
  /\ Called("get_me")
  /\ \/ Printed(GetMePayload(MeSample))
     \/ \E e \in ExcSamples : Crashed(e)
     \/ Interrupted
  /\ UNCHANGED <<argv, environ, client, listed, dialogs, di, results, pulled,
                 failed, window, dispatched>>

\* ------------------------------------------------------------- finally
\* TelegramSearchClient.disconnect: if self.client
ClientTruthyAlways(c) == TRUE

ClientTruthy(c) == c # None

\* finally: await client.disconnect(); then the process ends
Finally ==
  /\ pc = "finally"
  /\ pc' = "exited"
  /\ calls' = [calls EXCEPT
                 !["self_disconnect"] = @ + 1,
                 !["disconnect"] = IF ClientTruthy(client) THEN @ + 1 ELSE @]
  /\ exitStatus' = IF exitStatus = None THEN Some(0) ELSE exitStatus
  /\ UNCHANGED <<argv, environ, stdout, client, listed, dialogs, di, results,
                 pulled, failed, window, dispatched>>

\* ------------------------------------------------ the external data
DialogIds == 1..MaxDialogs

\* the first conversation has no title
DialogSamples ==
  {[id |-> i, title |-> IF i = 1 THEN None ELSE Some("T")] : i \in DialogIds}

RECURSIVE SeqsOfLen(_, _)
SeqsOfLen(S, n) ==
  IF n = 0 THEN {<<>>}
  ELSE {Append(q, x) : q \in SeqsOfLen(S, n - 1), x \in S}

\* what get_dialogs() may return: conversations with distinct ids
DialogLists ==
  { L \in UNION {SeqsOfLen(DialogSamples, n) : n \in 0..MaxDialogs} :
      \A i, j \in 1..Len(L) : i # j => L[i].id # L[j].id }

BaseDay == ToOrdinal(2024, 1, 1)

Walls == {BaseDay * TicksPerDay + k : k \in 0..(WallDays * TicksPerDay - 1)}

\* aware datetimes: every wall time in UTC, and the first tick of the day
\* after BaseDay in a zone one tick east
DateSamples ==
  {[wall |-> w, utcoffset |-> 0] : w \in Walls}
  \cup {[wall |-> (BaseDay + 1) * TicksPerDay, utcoffset |-> 1]}

EmptyText == [body |-> "", len |-> 0]
ShortText == [body |-> "a", len |-> 3]
LongText == [body |-> "a", len |-> TextLimit + 1]

\* a Message without its id
SearchMsgShapes ==
  { [text |-> x.text, date |-> x.date, sender_id |-> x.sender_id,
     out |-> FALSE, media |-> None] :
    x \in {[text |-> None, date |-> None, sender_id |-> Some(5)],
           [text |-> Some(ShortText), date |-> None, sender_id |-> None],
           [text |-> Some(LongText),
            date |-> Some([wall |-> BaseDay * TicksPerDay, utcoffset |-> 0]),
            sender_id |-> Some(5)]} }

\* a message without date, and one message for each date sample (those in
\* UTC are incoming and bare, the other is outgoing with text and a photo)
ScrapeMsgShapes ==
  {[text |-> Some(ShortText), date |-> None, sender_id |-> None,
    out |-> FALSE, media |-> None]}
  \cup { [text |-> IF d.utcoffset = 0 THEN None ELSE Some(ShortText),
          date |-> Some(d), sender_id |-> None,
          out |-> d.utcoffset # 0,
          media |-> IF d.utcoffset = 0 THEN None ELSE Some("MessageMediaPhoto")] :
         d \in DateSamples }

\* the next Message an iterator yields (None for a falsy item)
WithId(shape, n) ==
  Some([id |-> n, text |-> shape.text, date |-> shape.date,
        sender_id |-> shape.sender_id, out |-> shape.out, media |-> shape.media])

Yields(shapes) ==
  {None} \cup {WithId(sh, Len(pulled) + 1) : sh \in shapes}

\* str truthiness of message.text
TextTruthy(t) == t # None /\ t[1].len > 0

\* message.text[:500]
Truncate(t) == [t EXCEPT !.len = Min(t.len, TextLimit)]

Isoformat(date) == [isoformat |-> date]

\* -------------------------------------------------------- search_global
\* if chat_id:
ChatIdGivenNotNone(chat_id) == chat_id # None

ChatIdGiven(chat_id) == TruthyInt(chat_id)

\* [dialog for dialog in ... if dialog.id == chat_id]
DialogsWithId(L, id) == SelectSeq(L, LAMBDA d : d.id = id)

NotFoundEnvelope(chat_id) ==
  [error |-> "Chat ID " \o ToString(chat_id) \o " not found", results |-> <<>>]

SearchEnvelopeTotalPulled(query, res) ==
  [query |-> query, results |-> res, total |-> Len(pulled)]

SearchEnvelope(query, res) ==
  [query |-> query, results |-> res, total |-> Len(res)]

\* dialog.title or f"Chat {dialog.id}"
ChatTitle(dialog) ==
  IF TruthyStr(dialog.title) THEN dialog.title[1]
  ELSE "Chat " \o ToString(dialog.id)

MatchRecord(dialog, m) ==
  [chat_id |-> dialog.id,
   chat_title |-> ChatTitle(dialog),
   message_id |-> m.id,
   text |-> Truncate(m.text[1]),
   date |-> IF m.date # None THEN Some(Isoformat(m.date[1])) ELSE None,
   sender_id |-> m.sender_id]

\* results.append(record)
AppendResultInFront(res, rec) == <<rec>> \o res

AppendResult(res, rec) == Append(res, rec)

\* results = []; the dialogs to search; the not-found return
SearchStart ==
  /\ pc = "search"
  /\ Called("get_dialogs")
  /\ \/ \E L \in DialogLists :
          /\ listed' = L
          /\ IF ChatIdGiven(args.chat_id)
               THEN LET D == DialogsWithId(L, args.chat_id[1])
                    IN IF D = <<>>
                         THEN /\ Printed(NotFoundEnvelope(args.chat_id[1]))
                              /\ dialogs' = D
                              /\ di' = di
                         ELSE /\ dialogs' = D
                              /\ di' = 1
                              /\ pc' = "search_dialog"
                              /\ UNCHANGED <<exitStatus, stdout>>
               ELSE /\ dialogs' = L
                    /\ di' = 1
                    /\ pc' = "search_dialog"
                    /\ UNCHANGED <<exitStatus, stdout>>
     \/ /\ \E e \in ExcSamples : Crashed(e)
        /\ UNCHANGED <<listed, dialogs, di>>
     \/ /\ Interrupted
        /\ UNCHANGED <<listed, dialogs, di>>
  /\ results' = <<>>
  /\ UNCHANGED <<argv, environ, client, pulled, failed, window, dispatched>>

\* for dialog in dialogs: open the search of the next conversation, or
\* return the envelope once the list is exhausted
SearchDialog ==
  /\ pc = "search_dialog"
  /\ IF di <= Len(dialogs)
       THEN /\ Called("iter_messages_search")
            /\ pc' = "search_iter"
            /\ UNCHANGED <<exitStatus, stdout>>
       ELSE /\ Printed(SearchEnvelope(args.search[1], results))
            /\ calls' = calls
  /\ UNCHANGED <<argv, environ, client, listed, dialogs, di, results, pulled,
                 failed, window, dispatched>>

\* async for message in iter_messages(dialog.entity, search=query, limit=100)
SearchIter ==
  /\ pc = "search_iter"
  /\ \/ \* a message is yielded
        /\ Len(pulled) < MaxMsgs
        /\ \E m \in Yields(SearchMsgShapes) :
             /\ pulled' = Append(pulled, [conv |-> di, msg |-> m])
             /\ results' = IF m # None /\ TextTruthy(m[1].text)
                             THEN AppendResult(results, MatchRecord(dialogs[di], m[1]))
                             ELSE results
        /\ UNCHANGED <<pc, exitStatus, stdout, di, failed>>
     \/ \* the stream ends
        /\ pc' = "search_dialog"
        /\ di' = di + 1
        /\ UNCHANGED <<exitStatus, stdout, results, pulled, failed>>
     \/ \* except Exception: pass
        /\ pc' = "search_dialog"
        /\ di' = di + 1
        /\ failed' = failed \cup {di}
        /\ UNCHANGED <<exitStatus, stdout, results, pulled>>
     \/ /\ Interrupted
        /\ UNCHANGED <<di, results, pulled, failed>>
  /\ UNCHANGED <<argv, environ, client, calls, listed, dialogs, window, dispatched>>

\* ------------------------------------------------ scrape_saved_messages
InvalidDateEnvelope ==
  [error |-> "Invalid date format. Use YYYY-MM-DD", results |-> <<>>]

ScrapeFailureKeepsResults(res, e) ==
  [error |-> "Failed to scrape Saved Messages: " \o e.msg, results |-> res]

ScrapeFailure(res, e) ==
  [error |-> "Failed to scrape Saved Messages: " \o e.msg, results |-> <<>>]

ScrapeEnvelope(target_date, res) ==
  [date |-> target_date, results |-> res, total |-> Len(res)]

\* start_of_day <= msg_date <= end_of_day
InTargetDateOpenEnd(msg_date, w) ==
  w.start_of_day <= msg_date /\ msg_date < w.end_of_day

InTargetDate(msg_date, w) ==
  w.start_of_day <= msg_date /\ msg_date <= w.end_of_day

\* msg_date < start_of_day
PassedTargetDateLate(msg_date, w) == msg_date < w.start_of_day - 1

PassedTargetDate(msg_date, w) == msg_date < w.start_of_day

ScrapeRecord(m) ==
  [message_id |-> m.id,
   text |-> IF TextTruthy(m.text) THEN m.text[1] ELSE EmptyText,
   date |-> Isoformat(m.date[1]),
   is_read |-> ~m.out,
   media_type |-> m.media]

\* the date is parsed; on ValueError the error envelope is returned
ScrapeStart ==
  /\ pc = "scrape"
  /\ LET s == args.scrape_saved[1]
     IN IF StrptimeOk(s)
          THEN /\ window' = Some([start_of_day |-> StartOfDay(StrptimeDay(s)),
                                  end_of_day |-> EndOfDay(StrptimeDay(s))])
               /\ pc' = "scrape_get_me"
               /\ UNCHANGED <<exitStatus, stdout>>
          ELSE /\ Printed(InvalidDateEnvelope)
               /\ window' = window
  /\ UNCHANGED <<argv, environ, client, calls, listed, dialogs, di, results,
                 pulled, failed, dispatched>>

\* me = await self.client.get_me(); results = []; the iteration is opened
ScrapeGetMe ==
  /\ pc = "scrape_get_me"
  /\ \/ /\ calls' = [calls EXCEPT !["get_me"] = @ + 1, !["iter_messages"] = @ + 1]
        /\ pc' = "scrape_iter"
        /\ UNCHANGED <<exitStatus, stdout>>
     \/ /\ Called("get_me")
        /\ \E e \in ExcSamples : Crashed(e)
     \/ /\ Called("get_me")
        /\ Interrupted
  /\ results' = <<>>
  /\ UNCHANGED <<argv, environ, client, listed, dialogs, di, pulled, failed, window, dispatched>>

\* async for message in iter_messages(saved_messages_id, limit=None)
ScrapeIter ==
  /\ pc = "scrape_iter"
  /\ \/ \* a message is yielded
        /\ Len(pulled) < MaxMsgs
        /\ failed' = failed
        /\ \E m \in Yields(ScrapeMsgShapes) :
             /\ pulled' = Append(pulled, [conv |-> 0, msg |-> m])
             /\ IF m # None /\ m[1].date # None
                  THEN LET msg_date == StripTz(m[1].date[1])
                       IN /\ results' = IF InTargetDate(msg_date, window[1])
                                          THEN AppendResult(results, ScrapeRecord(m[1]))
                                          ELSE results
                          /\ IF PassedTargetDate(msg_date, window[1])
                               THEN Printed(ScrapeEnvelope(args.scrape_saved[1], results'))
                               ELSE UNCHANGED <<pc, exitStatus, stdout>>
                  ELSE UNCHANGED <<pc, exitStatus, stdout, results>>
     \/ \* the stream ends
        /\ Printed(ScrapeEnvelope(args.scrape_saved[1], results))
        /\ UNCHANGED <<results, pulled, failed>>
     \/ \* except Exception as e
        /\ \E e \in ExcSamples : Printed(ScrapeFailure(results, e))
        /\ failed' = failed \cup {0}
        /\ UNCHANGED <<results, pulled>>
     \/ /\ Interrupted
        /\ UNCHANGED <<results, pulled, failed>>
  /\ UNCHANGED <<argv, environ, client, calls, listed, dialogs, di, window, dispatched>>

Next ==
  \/ ParseArgs
  \/ Credentials
  \/ Connect
  \/ Dispatch
  \/ Auth
  \/ WhoAmI
  \/ SearchStart
  \/ SearchDialog
  \/ SearchIter
  \/ ScrapeStart
  \/ ScrapeGetMe
  \/ ScrapeIter
  \/ Finally

Spec == Init /\ [][Next]_vars

\* ================================================================ claims
Ended == pc \in {"finally", "exited"}

\* the run entered the try block of main
EnteredTry == calls["connect"] = 1

\* the payload printed is a success envelope of search_global
SearchEnvelopePrinted == Len(stdout) = 1 /\ "query" \in DOMAIN stdout[1]

\* the payload printed is a success envelope of scrape_saved_messages
ScrapeEnvelopePrinted == Len(stdout) = 1 /\ "date" \in DOMAIN stdout[1]

\* C1 (as stated): every run that enters the try block has invoked the
\* external client's disconnect exactly once when the process exits.
C1_DisconnectOnEveryBranch ==
  (pc = "exited" /\ EnteredTry) => calls["disconnect"] = 1

\* C1 (amended): a run that enters the try block calls
\* TelegramSearchClient.disconnect exactly once before it exits, on every
\* branch; the external client's disconnect is invoked exactly once when
\* the external client object was built and never when building it raised.
C1_DisconnectOnceIfClientBuilt ==
  /\ calls["self_disconnect"] <= 1
  /\ calls["disconnect"] <= 1
  /\ pc # "exited" => calls["disconnect"] = 0
  /\ (pc = "exited" /\ EnteredTry) =>
       /\ calls["self_disconnect"] = 1
       /\ calls["disconnect"] = (IF client # None THEN 1 ELSE 0)
  /\ (pc = "exited" /\ ~EnteredTry) => calls["self_disconnect"] = 0

\* an interrupted search has disconnected once
C1_Witness ==
  /\ pc = "exited"
  /\ dispatched = Some("search")
  /\ exitStatus = Some(0)
  /\ stdout = <<>>
  /\ calls["disconnect"] = 1

\* C2 (as stated): when search_global has returned its envelope, every
\* conversation was visited, every match of a conversation whose search
\* did not raise is in results, and no record of a conversation whose
\* search raised is in results or counted in total.
C2_FailedConversationContributesNothing ==
  (dispatched = Some("search") /\ SearchEnvelopePrinted) =>
    LET env == stdout[1]
        ok == SelectSeq(pulled, LAMBDA p :
                /\ p.conv \notin failed
                /\ p.msg # None
                /\ TextTruthy(p.msg[1].text))
    IN /\ di = Len(dialogs) + 1
       /\ \A i \in 1..Len(ok) : \E k \in 1..Len(env.results) :
            /\ env.results[k].message_id = ok[i].msg[1].id
            /\ env.results[k].chat_id = dialogs[ok[i].conv].id
       /\ \A k \in 1..Len(env.results) : \A f \in failed :
            env.results[k].chat_id # dialogs[f].id
       /\ env.total = Len(ok)

\* C3 (as stated): a search with a chat id (0 included) that no listed
\* conversation has makes no per-conversation search call and returns
\* exactly the not-found envelope.
C3_UnknownChatIdReported ==
  (/\ dispatched = Some("search")
   /\ args.chat_id # None
   /\ \A k \in 1..Len(listed) : listed[k].id # args.chat_id[1]) =>
    /\ calls["iter_messages_search"] = 0
    /\ (Len(stdout) = 1 /\ "results" \in DOMAIN stdout[1]) =>
         /\ DOMAIN stdout[1] = {"error", "results"}
         /\ stdout[1].error = "Chat ID " \o ToString(args.chat_id[1]) \o " not found"
         /\ stdout[1].results = <<>>

\* the timezone-stripped timestamp of a delivered item is before the window
BelowWindow(p) ==
  /\ p.msg # None
  /\ p.msg[1].date # None
  /\ p.msg[1].date[1].wall < window[1].start_of_day

\* C4: in a scrape, a message whose timezone-stripped timestamp is earlier
\* than start_of_day is the last message pulled, and the iteration is over.
C4_StopsAfterFirstOlderMessage ==
  dispatched = Some("scrape") =>
    \A i \in 1..Len(pulled) :
      BelowWindow(pulled[i]) => (i = Len(pulled) /\ Ended)

\* the scan stopped at an older message with room left for more messages
C4_Witness ==
  /\ pc = "exited"
  /\ ScrapeEnvelopePrinted
  /\ Len(pulled) = 2
  /\ Len(pulled) < MaxMsgs
  /\ ~BelowWindow(pulled[1])
  /\ BelowWindow(pulled[2])

\* the timezone-stripped timestamp of a delivered item is in the window,
\* bounds included
InWindow(p) ==
  /\ p.msg # None
  /\ p.msg[1].date # None
  /\ window[1].start_of_day <= p.msg[1].date[1].wall
  /\ p.msg[1].date[1].wall <= window[1].end_of_day

AboveWindow(p) ==
  /\ p.msg # None
  /\ p.msg[1].date # None
  /\ p.msg[1].date[1].wall > window[1].end_of_day

\* C5: the results of a successful scrape are, in stream order, exactly
\* the pulled messages with start_of_day <= timestamp <= end_of_day.
C5_ResultsAreTheDayMessages ==
  (dispatched = Some("scrape") /\ ScrapeEnvelopePrinted) =>
    LET sel == SelectSeq(pulled, InWindow)
        res == stdout[1].results
    IN /\ Len(res) = Len(sel)
       /\ \A i \in 1..Len(sel) :
            /\ res[i].message_id = sel[i].msg[1].id
            /\ res[i].date = [isoformat |-> sel[i].msg[1].date[1]]

\* a newer message, then one at end_of_day and one at start_of_day
C5_Witness ==
  /\ pc = "exited"
  /\ ScrapeEnvelopePrinted
  /\ Len(pulled) = 3
  /\ AboveWindow(pulled[1])
  /\ InWindow(pulled[2]) /\ pulled[2].msg[1].date[1].wall = window[1].end_of_day
  /\ InWindow(pulled[3]) /\ pulled[3].msg[1].date[1].wall = window[1].start_of_day
  /\ Len(stdout[1].results) = 2

\* C6: when iterating the self-archive raised, the payload is an error
\* envelope with the exception's message, empty results and no total.
C6_ScrapeFailureDiscardsPartial ==
  (dispatched = Some("scrape") /\ 0 \in failed) =>
    /\ Len(stdout) = 1
    /\ DOMAIN stdout[1] = {"error", "results"}
    /\ \E e \in ExcSamples :
         stdout[1].error = "Failed to scrape Saved Messages: " \o e.msg
    /\ stdout[1].results = <<>>

\* the iteration raised after a record had been accumulated
C6_Witness ==
  /\ pc = "exited"
  /\ dispatched = Some("scrape")
  /\ 0 \in failed
  /\ Len(results) >= 1

\* C7: in every printed envelope that carries a total, total is the length
\* of its results.
C7_TotalIsLenResults ==
  \A i \in 1..Len(stdout) :
    "total" \in DOMAIN stdout[i] => stdout[i].total = Len(stdout[i].results)

\* a search envelope after a failed conversation and a skipped message
C7_Witness ==
  /\ SearchEnvelopePrinted
  /\ failed # {}
  /\ stdout[1].total >= 1
  /\ Len(pulled) > stdout[1].total

NoExternalCall == \A c \in CallNames : calls[c] = 0

IdAbsent == argv.api_id = None /\ environ.TELEGRAM_API_ID = None

HashAbsent == argv.api_hash = None /\ environ.TELEGRAM_API_HASH = None

FlagIdNotInteger == argv.api_id # None /\ ~IsIntLiteral(argv.api_id[1])

\* the flag gives no id (absent or 0) and the environment's is not an integer
EnvIdNotInteger ==
  /\ argv.api_id = None \/ argv.api_id = Some(<<"0">>)
  /\ environ.TELEGRAM_API_ID # None
  /\ environ.TELEGRAM_API_ID[1] # <<>>
  /\ ~IsIntLiteral(environ.TELEGRAM_API_ID[1])

ChatIdFlagParses == argv.chat_id = None \/ IsIntLiteral(argv.chat_id[1])

\* C8 (as stated): with the API id or hash absent from flag and
\* environment, or an API id that is not an integer, no external call is
\* made and the exit status is 1 (on command lines whose --chat-id parses).
C8_BadCredentialsExitOne ==
  (/\ IdAbsent \/ HashAbsent \/ FlagIdNotInteger \/ EnvIdNotInteger
   /\ ChatIdFlagParses) =>
    /\ NoExternalCall
    /\ pc = "exited" => exitStatus = Some(1)

\* C8 (amended): no external call is made in any of these cases; the exit
\* status is 1 when the command line parses and the id or hash is absent
\* or the environment's id is not an integer, and 2 when an int-typed
\* flag (--api-id, --chat-id) is not an integer.
C8_BadCredentialsExitBeforeConnect ==
  /\ (IdAbsent \/ HashAbsent \/ FlagIdNotInteger \/ EnvIdNotInteger) =>
       NoExternalCall
  /\ (/\ IdAbsent \/ HashAbsent \/ EnvIdNotInteger
      /\ ~FlagIdNotInteger
      /\ ChatIdFlagParses
      /\ pc = "exited") => exitStatus = Some(1)
  /\ (FlagIdNotInteger /\ pc = "exited") => exitStatus = Some(2)

\* the id comes from the environment and is not an integer
C8_Witness ==
  /\ pc = "exited"
  /\ exitStatus = Some(1)
  /\ argv.api_id = None
  /\ environ.TELEGRAM_API_ID = Some(<<"x">>)
  /\ ~HashAbsent
  /\ NoExternalCall

ListedAt(id) == CHOOSE k \in 1..Len(listed) : listed[k].id = id

\* C10: results holds, in the order they were delivered, the records of
\* the delivered messages that have text; a record of an earlier-listed
\* conversation precedes a record of a later-listed one; the envelope
\* carries results unchanged.
C10_ResultsInListingOrder ==
  dispatched = Some("search") =>
    LET sel == SelectSeq(pulled, LAMBDA p :
                 p.msg # None /\ TextTruthy(p.msg[1].text))
    IN /\ Len(results) = Len(sel)
       /\ \A i \in 1..Len(sel) :
            /\ results[i].message_id = sel[i].msg[1].id
            /\ results[i].chat_id = dialogs[sel[i].conv].id
       /\ \A i, j \in 1..Len(results) :
            i < j => ListedAt(results[i].chat_id) <= ListedAt(results[j].chat_id)
       /\ SearchEnvelopePrinted => stdout[1].results = results

\* two records of the first conversation, then one of the second
C10_Witness ==
  /\ SearchEnvelopePrinted
  /\ Len(listed) >= 2
  /\ Len(stdout[1].results) = 3
  /\ stdout[1].results[1].chat_id = listed[1].id
  /\ stdout[1].results[2].chat_id = listed[1].id
  /\ stdout[1].results[3].chat_id = listed[2].id

====
